---- MODULE Spec2Model ----
(***************************************************************************)
(* Model of the IntegrationAPI class of src/index.js: the WebSocket        *)
(* session registry, the request/event dispatcher, the entity subscription *)
(* and command router and the driver setup flow.                           *)
(*                                                                         *)
(* One action is one run of JavaScript code between two points at which    *)
(* the event loop can take another I/O callback: the synchronous part of a *)
(* handler up to its first real suspension (the driver's setup handler,    *)
(* the entity command handler, the 500 ms timer), or the continuation that *)
(* runs when that suspension ends.                                         *)
(***************************************************************************)
EXTENDS Integers, Sequences, FiniteSets, TLC

\* ---- bounds of the model ----
MaxConns == 2
MaxFrames == 2
MaxIds == 2
MaxBroadcasts == 1
MaxUpdates == 2

\* ---- value sets ----
Addrs == {"10.0.0.1:5000", "10.0.0.2:5000"}
Entities == {"e1", "e2", "e3"}
DeviceStates == {"CONNECTED", "DISCONNECTED"}
ErrorTypes == {"OTHER", "TIMEOUT"}
SetupActions == {"RequestUserInput", "RequestUserConfirmation", "SetupComplete", "SetupError", "NoAction"}
GetMessages == {"get_driver_version", "get_device_state", "get_available_entities", "get_entity_states", "get_driver_metadata"}
DataUri == "data:image/png;base64,iVBORw0KGgo="
HttpUrl == "http://10.0.0.9/cover.png"
MediaImageUrls == {DataUri, HttpUrl}
InboundEvents == {"connect", "disconnect", "enter_standby", "exit_standby", "abort_driver_setup", "unknown_event"}

\* ---- status codes ----
OK == 200
BAD_REQUEST == 400
UNAUTHORIZED == 401
NOT_FOUND == 404
SERVER_ERROR == 500
CommandResults == {OK, SERVER_ERROR}

NoConn == 0

VARIABLES
  setupHandler,   \* TRUE when init() was given a driver setup handler
  state,          \* #state, the device state
  conns,          \* wsId of every connection accepted so far; a connection is its index
  open,           \* connections whose transport is open
  clients,        \* #clients: the Map in insertion order, connection -> metadata,
                  \* with what the connection's send() does at present
  available,      \* ids stored in availableEntities
  configured,     \* ids stored in configuredEntities
  frames,         \* every inbound frame with the position of its handler
  out,            \* every send attempted, in order; to = NoConn when only logged
  bcasts,         \* for every broadcast, the connections open when it ran
  attributes      \* for every entity, the media_image_url in the attribute object the
                  \* entity storage hands out, and the value the driver set last

vars == <<setupHandler, state, conns, open, clients, available, configured, frames, out, bcasts, attributes>>

\* ---- helpers ----
Min(S) == CHOOSE x \in S : \A y \in S : x <= y

SeqsUpTo(S, n) == UNION {[1..k -> S] : k \in 0..n}

Range(s) == {s[i] : i \in 1..Len(s)}

RECURSIVE SelectOut(_, _, _)
SelectOut(o, i, fid) ==
  IF i > Len(o) THEN <<>>
  ELSE IF o[i].fid = fid THEN <<o[i]>> \o SelectOut(o, i + 1, fid)
  ELSE SelectOut(o, i + 1, fid)

\* the entity command handler flag of the entity objects the driver created
HasCmdHandler(e) == e = "e1"

Registered == {clients[i].conn : i \in 1..Len(clients)}

\* ---- entity storage (lib/entities/entities) ----
GetEntity(store, id) == id \in store

AddEntity(store, id) == store \cup {id}

RemoveEntityResult(store, id) == id \in store

RemoveEntity(store, id) == store \ {id}

\* ---- Connection registry ----
GetWsConnection(id) ==
  LET idx == {i \in 1..Len(clients) : clients[i].id = id}
  IN IF idx = {} THEN NoConn ELSE clients[Min(idx)].conn

\* ---- outbound envelopes ----
Response(wsId, id, msg, data, statusCode, fid) ==
  [to |-> GetWsConnection(wsId), wsId |-> wsId, kind |-> "resp", req_id |-> id,
   code |-> statusCode, msg |-> msg, data |-> data, cat |-> "-", fid |-> fid, bc |-> 0]

SendResponse(o, wsId, id, msg, data, statusCode, fid) ==
  Append(o, Response(wsId, id, msg, data, statusCode, fid))

SendOkResult(o, wsId, id, fid) == SendResponse(o, wsId, id, "result", "{}", OK, fid)

\* faulty variant: the default status code of an error result is 200
SendErrorResultOk(o, wsId, id, fid) == SendResponse(o, wsId, id, "result", "{}", OK, fid)

SendErrorResult(o, wsId, id, fid) == SendResponse(o, wsId, id, "result", "{}", SERVER_ERROR, fid)

AcknowledgeCommand(o, wsId, reqId, statusCode, fid) ==
  SendResponse(o, wsId, reqId, "result", "{}", statusCode, fid)

\* faulty variant: an event for an identifier that is not registered goes to the
\* connection registered first
SendEventFallback(o, wsId, msg, data, category, fid) ==
  Append(o, [to |-> IF GetWsConnection(wsId) = NoConn /\ Len(clients) > 0
                    THEN clients[1].conn ELSE GetWsConnection(wsId),
             wsId |-> wsId, kind |-> "event", req_id |-> 0,
             code |-> 0, msg |-> msg, data |-> data, cat |-> category, fid |-> fid, bc |-> 0])

SendEvent(o, wsId, msg, data, category, fid) ==
  Append(o, [to |-> GetWsConnection(wsId), wsId |-> wsId, kind |-> "event", req_id |-> 0,
             code |-> 0, msg |-> msg, data |-> data, cat |-> category, fid |-> fid, bc |-> 0])

\* client.send(response) for every key of #clients, in insertion order; a send
\* that raises ends the forEach, the connections after it are not reached
RECURSIVE BroadcastFrom(_, _, _, _, _, _)
BroadcastFrom(o, i, msg, data, category, serial) ==
  IF i > Len(clients) THEN o
  ELSE IF clients[i].send = "throws" THEN o
  ELSE IF clients[i].send = "drops" THEN BroadcastFrom(o, i + 1, msg, data, category, serial)
  ELSE BroadcastFrom(
         Append(o, [to |-> clients[i].conn, wsId |-> "*", kind |-> "event", req_id |-> 0,
                    code |-> 0, msg |-> msg, data |-> data, cat |-> category, fid |-> 0, bc |-> serial]),
         i + 1, msg, data, category, serial)

BroadcastEvent(o, msg, data, category, serial) == BroadcastFrom(o, 1, msg, data, category, serial)

\* ---- setup flow events ----
DriverSetupProgress(o, wsId, fid) ==
  SendEvent(o, wsId, "driver_setup_change", "SETUP/SETUP", "DEVICE", fid)

RequestDriverSetupUserInput(o, wsId, fid) ==
  SendEvent(o, wsId, "driver_setup_change", "SETUP/WAIT_USER_ACTION/input", "DEVICE", fid)

RequestDriverSetupUserConfirmation(o, wsId, fid) ==
  SendEvent(o, wsId, "driver_setup_change", "SETUP/WAIT_USER_ACTION/confirmation", "DEVICE", fid)

DriverSetupComplete(o, wsId, fid) ==
  SendEvent(o, wsId, "driver_setup_change", "STOP/OK", "DEVICE", fid)

StopError(error) == IF error = "OTHER" THEN "STOP/ERROR/OTHER" ELSE "STOP/ERROR/TIMEOUT"

DriverSetupError(o, wsId, error, fid) ==
  SendEvent(o, wsId, "driver_setup_change", StopError(error), "DEVICE", fid)

\* ---- initial state: after the constructor and init() ----
Init ==
  /\ setupHandler \in BOOLEAN
  /\ state = "DISCONNECTED"
  /\ conns = <<>>
  /\ open = {}
  /\ clients = <<>>
  /\ available = {"e1", "e2"}
  /\ configured = {}
  /\ frames = <<>>
  /\ out = <<>>
  /\ bcasts = <<>>
  /\ attributes = [e \in Entities |-> [media_image_url |-> HttpUrl, original |-> HttpUrl]]

\* ---- server "connection", "close" and "error" callbacks ----
Authentication(wsId, success) ==
  Response(wsId, 0, "authentication", "{}", IF success THEN OK ELSE UNAUTHORIZED, 0)

\* faulty variant: the authentication response is sent before the connection is
\* put into #clients
ConnectAuthFirst(addr) ==
  /\ Len(conns) < MaxConns
  /\ \A c \in open : conns[c] # addr
  /\ conns' = Append(conns, addr)
  /\ open' = open \cup {Len(conns) + 1}
  /\ clients' = Append(clients, [conn |-> Len(conns) + 1, id |-> addr, authenticated |-> TRUE, send |-> "ok"])
  /\ out' = Append(out, Authentication(addr, TRUE))
  /\ UNCHANGED <<setupHandler, state, available, configured, frames, bcasts, attributes>>

Connect(addr) ==
  /\ Len(conns) < MaxConns
  /\ \A c \in open : conns[c] # addr
  /\ conns' = Append(conns, addr)
  /\ open' = open \cup {Len(conns) + 1}
  /\ clients' = Append(clients, [conn |-> Len(conns) + 1, id |-> addr, authenticated |-> TRUE, send |-> "ok"])
  /\ out' = Append(out, Authentication(addr, TRUE)')
  /\ UNCHANGED <<setupHandler, state, available, configured, frames, bcasts, attributes>>

Delete(reg, c) == SelectSeq(reg, LAMBDA m : m.conn # c)

\* faulty variant: the close callback leaves the connection in #clients
CloseKeepsClient(c) ==
  /\ c \in open
  /\ open' = open \ {c}
  /\ UNCHANGED <<setupHandler, state, conns, clients, available, configured, frames, out, bcasts, attributes>>

Close(c) ==
  /\ c \in open
  /\ open' = open \ {c}
  /\ clients' = Delete(clients, c)
  /\ UNCHANGED <<setupHandler, state, conns, available, configured, frames, out, bcasts, attributes>>

Error(c) ==
  /\ c \in open
  /\ open' = open \ {c}
  /\ clients' = Delete(clients, c)
  /\ UNCHANGED <<setupHandler, state, conns, available, configured, frames, out, bcasts, attributes>>

\* the socket of a registered connection stops being writable before its close
\* or error callback has run: from then on send() on it raises, or discards the
\* data, depending on the WebSocket implementation
SendFailures == {"throws", "drops"}

TransportFails(c, outcome) ==
  /\ c \in open
  /\ \E i \in 1..Len(clients) : clients[i].conn = c /\ clients[i].send = "ok"
  /\ clients' = [i \in 1..Len(clients) |->
                   IF clients[i].conn = c THEN [clients[i] EXCEPT !.send = outcome] ELSE clients[i]]
  /\ UNCHANGED <<setupHandler, state, conns, open, available, configured, frames, out, bcasts, attributes>>

\* ---- outbound logging ----
Redacted == "data:..."

StartsWithData(url) == url \in {DataUri, Redacted}

\* the media_image_url #log_json_message leaves in msg_data.attributes, which is
\* the value it logs
LogJsonMessage(url) == IF StartsWithData(url) THEN Redacted ELSE url

\* ---- ENTITY_ATTRIBUTES_UPDATED ----
\* what the notification passes as attributes: a Map, or the attribute object
\* itself
AttributeForms == {"Map", "Object"}

\* (lib/entities/entities) the media_image_url in the attributes the storage
\* passes with the notification; url is the value the driver sets, or
\* "unchanged" when the driver changes other attributes
UpdatedAttributes(e, url) == IF url = "unchanged" THEN attributes[e].media_image_url ELSE url

\* the handler of ENTITY_ATTRIBUTES_UPDATED, for a configured entity.
\* The envelope is serialized before it is logged; a Map is copied by
\* Object.fromEntries, an attribute object is passed on as it is and the
\* redaction of the log writes into it
EntityAttributesUpdated(e, url, form) ==
  LET value == UpdatedAttributes(e, url)
      original == IF url = "unchanged" THEN attributes[e].original ELSE url
  IN /\ Len(bcasts) < MaxUpdates
     /\ e \in configured
     /\ out' = BroadcastEvent(out, "entity_change", value, "ENTITY", Len(bcasts) + 1)
     /\ bcasts' = Append(bcasts, open)
     /\ attributes' = [attributes EXCEPT ![e] =
                         [media_image_url |-> IF form = "Map" THEN value ELSE LogJsonMessage(value),
                          original |-> original]]
     /\ UNCHANGED <<setupHandler, state, conns, open, clients, available, configured, frames>>

\* ---- setDeviceState ----
SetDeviceState(s) ==
  /\ Len(bcasts) < MaxBroadcasts
  /\ state' = s
  /\ out' = BroadcastEvent(out, "device_state", s, "DEVICE", Len(bcasts) + 1)
  /\ bcasts' = Append(bcasts, open)
  /\ UNCHANGED <<setupHandler, conns, open, clients, available, configured, frames, attributes>>

\* ---- inbound frames ----
\* msg_data of a request: shape "none" is an absent msg_data, "empty" an object
\* without the fields the request needs
Payload(shape, ids, entity) == [shape |-> shape, ids |-> ids, entity |-> entity]

NoData == Payload("none", <<>>, "-")

EmptyData == Payload("empty", <<>>, "-")

CommandPayloads == {NoData, EmptyData} \cup {Payload("cmd", <<>>, e) : e \in Entities}

IdsPayloads == {NoData, EmptyData} \cup {Payload("ids", ids, "-") : ids \in SeqsUpTo(Entities, MaxIds)}

SetupPayloads == {NoData, EmptyData, Payload("setup_data", <<>>, "-")}

UserDataPayloads == {NoData, EmptyData, Payload("input_values", <<>>, "-"), Payload("confirm", <<>>, "-")}

\* the correlation id the hub gives its next request
ReqIds == {Len(frames) + 11}

\* a frame and the position of its handler: pc is "done" when the handler has
\* returned, "threw" when it ended with an exception nobody catches; calls counts
\* the invocations of driver logic, emitted names the notification given to the
\* driver, ret is the value of the #setupDriver, #setDriverUserData or
\* #unSubscribeEvents call, at is the length of the send log on receipt, pre and
\* post are the configured ids before and after the synchronous part, notified
\* is the id list a subscription notification carries
Frame(c, kind, id, msg, data) ==
  [conn |-> c, wsId |-> conns[c], kind |-> kind, id |-> id, msg |-> msg, data |-> data,
   pc |-> "done", calls |-> 0, emitted |-> "none", ret |-> "none", action |-> "none",
   acked |-> FALSE, at |-> Len(out), pre |-> configured, post |-> configured,
   notified |-> <<>>]

CanReceive(c) ==
  /\ c \in open
  /\ c \in Registered
  /\ Len(frames) < MaxFrames

Fid == Len(frames) + 1

\* faulty variant: a frame that does not parse is answered with an error result
ReceiveMalformedAnswered(c) ==
  /\ CanReceive(c)
  /\ frames' = Append(frames, Frame(c, "malformed", 0, "-", NoData))
  /\ out' = SendErrorResult(out, conns[c], 0, Fid)
  /\ UNCHANGED <<setupHandler, state, conns, open, clients, available, configured, bcasts, attributes>>

\* JSON.parse throws: the frame is logged and dropped
ReceiveMalformed(c) ==
  /\ CanReceive(c)
  /\ frames' = Append(frames, Frame(c, "malformed", 0, "-", NoData))
  /\ UNCHANGED <<setupHandler, state, conns, open, clients, available, configured, out, bcasts, attributes>>

\* a kind that is neither "req" nor "event"
ReceiveOtherKind(c) ==
  /\ CanReceive(c)
  /\ frames' = Append(frames, Frame(c, "resp", 0, "-", NoData))
  /\ UNCHANGED <<setupHandler, state, conns, open, clients, available, configured, out, bcasts, attributes>>

ResponseName(msg) ==
  CASE msg = "get_driver_version" -> "driver_version"
    [] msg = "get_device_state" -> "device_state"
    [] msg = "get_available_entities" -> "available_entities"
    [] msg = "get_entity_states" -> "entity_states"
    [] msg = "get_driver_metadata" -> "driver_metadata"

ResponseData(msg) == IF msg = "get_device_state" THEN state ELSE "{...}"

ReceiveGet(c, id, msg) ==
  /\ CanReceive(c)
  /\ frames' = Append(frames, Frame(c, "req", id, msg, NoData))
  /\ out' = SendResponse(out, conns[c], id, ResponseName(msg), ResponseData(msg), OK, Fid)
  /\ UNCHANGED <<setupHandler, state, conns, open, clients, available, configured, bcasts, attributes>>

ReceiveUnknownRequest(c, id) ==
  /\ CanReceive(c)
  /\ frames' = Append(frames, Frame(c, "req", id, "unknown_request", NoData))
  /\ out' = SendErrorResult(out, conns[c], id, Fid)
  /\ UNCHANGED <<setupHandler, state, conns, open, clients, available, configured, bcasts, attributes>>

\* inbound events become notifications to the driver
Notification(msg) ==
  CASE msg = "connect" -> "connect"
    [] msg = "disconnect" -> "disconnect"
    [] msg = "enter_standby" -> "enter_standby"
    [] msg = "exit_standby" -> "exit_standby"
    [] msg = "abort_driver_setup" -> "setup_driver_abort"
    [] OTHER -> "none"

ReceiveEvent(c, msg) ==
  /\ CanReceive(c)
  /\ frames' = Append(frames, [Frame(c, "event", 0, msg, NoData) EXCEPT !.emitted = Notification(msg)])
  /\ UNCHANGED <<setupHandler, state, conns, open, clients, available, configured, out, bcasts, attributes>>

\* ---- subscriptions ----
RECURSIVE SubscribeFrom(_, _, _)
SubscribeFrom(conf, ids, i) ==
  IF i > Len(ids) THEN conf
  ELSE SubscribeFrom(IF GetEntity(available, ids[i]) THEN AddEntity(conf, ids[i]) ELSE conf, ids, i + 1)

\* faulty variant: every requested id is configured, available or not
SubscribeEventsUnchecked(conf, ids) == conf \cup Range(ids)

SubscribeEvents(conf, ids) == SubscribeFrom(conf, ids, 1)

RECURSIVE UnSubscribeFrom(_, _, _, _)
UnSubscribeFrom(conf, res, ids, i) ==
  IF i > Len(ids) THEN [conf |-> conf, res |-> res]
  ELSE UnSubscribeFrom(RemoveEntity(conf, ids[i]), res /\ RemoveEntityResult(conf, ids[i]), ids, i + 1)

\* faulty variant: the loop stops at the first id that is not configured
UnSubscribeEventsStop(conf, ids) ==
  IF \E i \in 1..Len(ids) : ~RemoveEntityResult(conf, ids[i])
  THEN LET k == Min({i \in 1..Len(ids) : ~RemoveEntityResult(conf, ids[i])})
       IN [conf |-> conf \ {ids[i] : i \in 1..(k - 1)}, res |-> FALSE]
  ELSE [conf |-> conf \ Range(ids), res |-> TRUE]

UnSubscribeEvents(conf, ids) == UnSubscribeFrom(conf, TRUE, ids, 1)

\* entities.entity_ids.forEach raises a TypeError when msg_data or entity_ids is
\* absent: the handler ends there, before the response
ReceiveSubscribe(c, id, data) ==
  /\ CanReceive(c)
  /\ IF data.shape # "ids"
     THEN /\ frames' = Append(frames, [Frame(c, "req", id, "subscribe_events", data) EXCEPT !.pc = "threw"])
          /\ UNCHANGED <<configured, out, attributes>>
     ELSE /\ configured' = SubscribeEvents(configured, data.ids)
          /\ frames' = Append(frames, [Frame(c, "req", id, "subscribe_events", data)
                                         EXCEPT !.emitted = "subscribe_entities",
                                                !.notified = data.ids,
                                                !.post = SubscribeEvents(configured, data.ids)])
          /\ out' = SendOkResult(out, conns[c], id, Fid)
  /\ UNCHANGED <<setupHandler, state, conns, open, clients, available, bcasts, attributes>>

\* faulty variant: the ids are removed from the available entities as well
ReceiveUnsubscribeBothStores(c, id, data) ==
  /\ CanReceive(c)
  /\ IF data.shape # "ids"
     THEN /\ frames' = Append(frames, [Frame(c, "req", id, "unsubscribe_events", data) EXCEPT !.pc = "threw"])
          /\ UNCHANGED <<available, configured, out>>
     ELSE /\ configured' = UnSubscribeEvents(configured, data.ids).conf
          /\ available' = UnSubscribeEvents(available, data.ids).conf
          /\ frames' = Append(frames, [Frame(c, "req", id, "unsubscribe_events", data)
                                         EXCEPT !.emitted = "unsubscribe_entities",
                                                !.notified = data.ids,
                                                !.post = UnSubscribeEvents(configured, data.ids).conf,
                                                !.ret = IF UnSubscribeEvents(configured, data.ids).res
                                                        THEN "true" ELSE "false"])
          /\ out' = SendOkResult(out, conns[c], id, Fid)
  /\ UNCHANGED <<setupHandler, state, conns, open, clients, bcasts, attributes>>

ReceiveUnsubscribe(c, id, data) ==
  /\ CanReceive(c)
  /\ IF data.shape # "ids"
     THEN /\ frames' = Append(frames, [Frame(c, "req", id, "unsubscribe_events", data) EXCEPT !.pc = "threw"])
          /\ UNCHANGED <<configured, out, attributes>>
     ELSE /\ configured' = UnSubscribeEvents(configured, data.ids).conf
          /\ frames' = Append(frames, [Frame(c, "req", id, "unsubscribe_events", data)
                                         EXCEPT !.emitted = "unsubscribe_entities",
                                                !.notified = data.ids,
                                                !.post = UnSubscribeEvents(configured, data.ids).conf,
                                                !.ret = IF UnSubscribeEvents(configured, data.ids).res
                                                        THEN "true" ELSE "false"])
          /\ out' = SendOkResult(out, conns[c], id, Fid)
  /\ UNCHANGED <<setupHandler, state, conns, open, clients, available, bcasts, attributes>>

\* ---- entity commands ----
\* faulty variant: the entity is looked up in the available entities
EntityCommandAvailable(c, id, data) ==
  IF data.shape # "cmd"
  THEN /\ frames' = Append(frames, Frame(c, "req", id, "entity_command", data))
       /\ out' = AcknowledgeCommand(out, conns[c], id, BAD_REQUEST, Fid)
  ELSE IF ~GetEntity(available, data.entity)
  THEN /\ frames' = Append(frames, Frame(c, "req", id, "entity_command", data))
       /\ out' = AcknowledgeCommand(out, conns[c], id, NOT_FOUND, Fid)
  ELSE IF ~HasCmdHandler(data.entity)
  THEN /\ frames' = Append(frames, [Frame(c, "req", id, "entity_command", data)
                                      EXCEPT !.emitted = "entity_command"])
       /\ out' = out
  ELSE /\ frames' = Append(frames, [Frame(c, "req", id, "entity_command", data)
                                      EXCEPT !.pc = "awaitCmd", !.calls = 1])
       /\ out' = out

EntityCommand(c, id, data) ==
  IF data.shape # "cmd"
  THEN /\ frames' = Append(frames, Frame(c, "req", id, "entity_command", data))
       /\ out' = AcknowledgeCommand(out, conns[c], id, BAD_REQUEST, Fid)
  ELSE IF ~GetEntity(configured, data.entity)
  THEN /\ frames' = Append(frames, Frame(c, "req", id, "entity_command", data))
       /\ out' = AcknowledgeCommand(out, conns[c], id, NOT_FOUND, Fid)
  ELSE IF ~HasCmdHandler(data.entity)
  THEN /\ frames' = Append(frames, [Frame(c, "req", id, "entity_command", data)
                                      EXCEPT !.emitted = "entity_command"])
       /\ out' = out
  ELSE /\ frames' = Append(frames, [Frame(c, "req", id, "entity_command", data)
                                      EXCEPT !.pc = "awaitCmd", !.calls = 1])
       /\ out' = out

ReceiveEntityCommand(c, id, data) ==
  /\ CanReceive(c)
  /\ EntityCommand(c, id, data)
  /\ UNCHANGED <<setupHandler, state, conns, open, clients, available, configured, bcasts, attributes>>

\* entity.command() returns a status code
CommandReturn(fid, result) ==
  /\ fid \in 1..Len(frames)
  /\ frames[fid].pc = "awaitCmd"
  /\ out' = AcknowledgeCommand(out, frames[fid].wsId, frames[fid].id, result, fid)
  /\ frames' = [frames EXCEPT ![fid].pc = "done"]
  /\ UNCHANGED <<setupHandler, state, conns, open, clients, available, configured, bcasts, attributes>>

\* entity.command() raises: nothing in #entityCommand or #messageReceived catches it
CommandThrow(fid) ==
  /\ fid \in 1..Len(frames)
  /\ frames[fid].pc = "awaitCmd"
  /\ frames' = [frames EXCEPT ![fid].pc = "threw"]
  /\ UNCHANGED <<setupHandler, state, conns, open, clients, available, configured, out, bcasts, attributes>>

\* the driver answers a legacy notification with the handle it was given
DriverAcknowledge(fid, statusCode) ==
  /\ fid \in 1..Len(frames)
  /\ frames[fid].emitted \in {"entity_command", "setup_driver", "setup_driver_user_data",
                              "setup_driver_user_confirmation"}
  /\ ~frames[fid].acked
  /\ out' = AcknowledgeCommand(out, frames[fid].wsId, frames[fid].id, statusCode, fid)
  /\ frames' = [frames EXCEPT ![fid].acked = TRUE]
  /\ UNCHANGED <<setupHandler, state, conns, open, clients, available, configured, bcasts, attributes>>

\* ---- setup flow ----
\* faulty variant: only an absent msg_data is rejected, setup_data is not looked at
SetupDriverPayloadOnly(c, id, data) ==
  LET o1 == IF setupHandler THEN AcknowledgeCommand(out, conns[c], id, OK, Fid) ELSE out
      f == Frame(c, "req", id, "setup_driver", data)
  IN IF data.shape = "none"
     THEN /\ frames' = Append(frames, [f EXCEPT !.ret = "false"])
          /\ out' = DriverSetupError(o1, conns[c], "OTHER", Fid)
     ELSE IF ~setupHandler
     THEN /\ frames' = Append(frames, [f EXCEPT !.emitted = "setup_driver", !.ret = "true"])
          /\ out' = o1
     ELSE /\ frames' = Append(frames, [f EXCEPT !.pc = "awaitSetup", !.calls = 1])
          /\ out' = o1

SetupDriver(c, id, data) ==
  LET o1 == IF setupHandler THEN AcknowledgeCommand(out, conns[c], id, OK, Fid) ELSE out
      f == Frame(c, "req", id, "setup_driver", data)
  IN IF data.shape # "setup_data"
     THEN \* #setupDriver returns false, #messageReceived reports the error
          /\ frames' = Append(frames, [f EXCEPT !.ret = "false"])
          /\ out' = DriverSetupError(o1, conns[c], "OTHER", Fid)
     ELSE IF ~setupHandler
     THEN /\ frames' = Append(frames, [f EXCEPT !.emitted = "setup_driver", !.ret = "true"])
          /\ out' = o1
     ELSE /\ frames' = Append(frames, [f EXCEPT !.pc = "awaitSetup", !.calls = 1])
          /\ out' = o1

ReceiveSetupDriver(c, id, data) ==
  /\ CanReceive(c)
  /\ SetupDriver(c, id, data)
  /\ UNCHANGED <<setupHandler, state, conns, open, clients, available, configured, bcasts, attributes>>

\* faulty variant: only an absent msg_data is rejected before the delay
SetDriverUserDataPayloadOnly(c, id, data) ==
  LET o1 == IF setupHandler THEN AcknowledgeCommand(out, conns[c], id, OK, Fid) ELSE out
      f == Frame(c, "req", id, "set_driver_user_data", data)
  IN IF data.shape = "none"
     THEN /\ frames' = Append(frames, [f EXCEPT !.ret = "false"])
          /\ out' = DriverSetupError(o1, conns[c], "OTHER", Fid)
     ELSE /\ frames' = Append(frames, [f EXCEPT !.pc = "delay"])
          /\ out' = o1

SetDriverUserData(c, id, data) ==
  LET o1 == IF setupHandler THEN AcknowledgeCommand(out, conns[c], id, OK, Fid) ELSE out
      f == Frame(c, "req", id, "set_driver_user_data", data)
  IN IF data.shape \notin {"input_values", "confirm"}
     THEN /\ frames' = Append(frames, [f EXCEPT !.ret = "false"])
          /\ out' = DriverSetupError(o1, conns[c], "OTHER", Fid)
     ELSE /\ frames' = Append(frames, [f EXCEPT !.pc = "delay"])
          /\ out' = o1

ReceiveSetDriverUserData(c, id, data) ==
  /\ CanReceive(c)
  /\ SetDriverUserData(c, id, data)
  /\ UNCHANGED <<setupHandler, state, conns, open, clients, available, configured, bcasts, attributes>>

\* faulty variant: the continuation emits no progress event
TimerFiresNoProgress(fid) ==
  /\ fid \in 1..Len(frames)
  /\ frames[fid].pc = "delay"
  /\ out' = out
  /\ IF ~setupHandler
     THEN frames' = [frames EXCEPT ![fid].pc = "done", ![fid].ret = "true",
                                   ![fid].emitted = IF frames[fid].data.shape = "input_values"
                                                    THEN "setup_driver_user_data"
                                                    ELSE "setup_driver_user_confirmation"]
     ELSE frames' = [frames EXCEPT ![fid].pc = "awaitSetup", ![fid].calls = @ + 1]
  /\ UNCHANGED <<setupHandler, state, conns, open, clients, available, configured, bcasts, attributes>>

\* the 500 ms timer of #setDriverUserData fires
TimerFires(fid) ==
  /\ fid \in 1..Len(frames)
  /\ frames[fid].pc = "delay"
  /\ out' = DriverSetupProgress(out, frames[fid].wsId, fid)
  /\ IF ~setupHandler
     THEN frames' = [frames EXCEPT ![fid].pc = "done", ![fid].ret = "true",
                                   ![fid].emitted = IF frames[fid].data.shape = "input_values"
                                                    THEN "setup_driver_user_data"
                                                    ELSE "setup_driver_user_confirmation"]
     ELSE frames' = [frames EXCEPT ![fid].pc = "awaitSetup", ![fid].calls = @ + 1]
  /\ UNCHANGED <<setupHandler, state, conns, open, clients, available, configured, bcasts, attributes>>

\* faulty variant: a returned value that is no SetupAction is turned into no
\* event at all
SetupActionEventsSilent(o, wsId, fid, action, errorType, initial) ==
  LET o1 == IF initial THEN DriverSetupProgress(o, wsId, fid) ELSE o
  IN CASE action = "RequestUserInput" -> RequestDriverSetupUserInput(o1, wsId, fid)
       [] action = "RequestUserConfirmation" -> RequestDriverSetupUserConfirmation(o1, wsId, fid)
       [] action = "SetupComplete" -> DriverSetupComplete(o, wsId, fid)
       [] action = "SetupError" -> DriverSetupError(o, wsId, errorType, fid)
       [] OTHER -> o

\* the events a SetupAction is turned into; initial is TRUE in #setupDriver
SetupActionEvents(o, wsId, fid, action, errorType, initial) ==
  LET o1 == IF initial THEN DriverSetupProgress(o, wsId, fid) ELSE o
  IN CASE action = "RequestUserInput" -> RequestDriverSetupUserInput(o1, wsId, fid)
       [] action = "RequestUserConfirmation" -> RequestDriverSetupUserConfirmation(o1, wsId, fid)
       [] action = "SetupComplete" -> DriverSetupComplete(o, wsId, fid)
       [] action = "SetupError" -> DriverSetupError(o, wsId, errorType, fid)
       [] OTHER -> DriverSetupError(o, wsId, "OTHER", fid)

\* the driver's setup handler returns; NoAction is a value that is no SetupAction
SetupReturn(fid, action, errorType) ==
  /\ fid \in 1..Len(frames)
  /\ frames[fid].pc = "awaitSetup"
  /\ out' = SetupActionEvents(out, frames[fid].wsId, fid, action, errorType,
                              frames[fid].msg = "setup_driver")
  /\ frames' = [frames EXCEPT ![fid].pc = "done", ![fid].action = action,
                              ![fid].ret = IF action = "NoAction" THEN "false" ELSE "true"]
  /\ UNCHANGED <<setupHandler, state, conns, open, clients, available, configured, bcasts, attributes>>

\* the driver's setup handler raises: caught, false is returned and
\* #messageReceived reports the error
SetupThrow(fid) ==
  /\ fid \in 1..Len(frames)
  /\ frames[fid].pc = "awaitSetup"
  /\ out' = DriverSetupError(out, frames[fid].wsId, "OTHER", fid)
  /\ frames' = [frames EXCEPT ![fid].pc = "done", ![fid].action = "threw", ![fid].ret = "false"]
  /\ UNCHANGED <<setupHandler, state, conns, open, clients, available, configured, bcasts, attributes>>

\* ---- specifications ----
\* the registry: sessions come and go
Sessions ==
  \/ \E addr \in Addrs : Connect(addr)
  \/ \E c \in 1..MaxConns : Close(c)
  \/ \E c \in 1..MaxConns : Error(c)

\* frames #messageReceived answers without suspending, and device state changes
NextDispatch ==
  \/ Sessions
  \/ \E s \in DeviceStates : SetDeviceState(s)
  \/ \E c \in 1..MaxConns : ReceiveMalformed(c)
  \/ \E c \in 1..MaxConns : ReceiveOtherKind(c)
  \/ \E c \in 1..MaxConns, id \in ReqIds, msg \in GetMessages : ReceiveGet(c, id, msg)
  \/ \E c \in 1..MaxConns, id \in ReqIds : ReceiveUnknownRequest(c, id)
  \/ \E c \in 1..MaxConns, msg \in InboundEvents : ReceiveEvent(c, msg)

\* the entity subscription and command router
NextRouter ==
  \/ Sessions
  \/ \E c \in 1..MaxConns, id \in ReqIds, data \in IdsPayloads : ReceiveSubscribe(c, id, data)
  \/ \E c \in 1..MaxConns, id \in ReqIds, data \in IdsPayloads : ReceiveUnsubscribe(c, id, data)
  \/ \E c \in 1..MaxConns, id \in ReqIds, data \in CommandPayloads : ReceiveEntityCommand(c, id, data)
  \/ \E fid \in 1..MaxFrames, result \in CommandResults : CommandReturn(fid, result)
  \/ \E fid \in 1..MaxFrames : CommandThrow(fid)
  \/ \E fid \in 1..MaxFrames, statusCode \in CommandResults : DriverAcknowledge(fid, statusCode)

\* the setup flow
NextSetup ==
  \/ Sessions
  \/ \E c \in 1..MaxConns, id \in ReqIds, data \in SetupPayloads : ReceiveSetupDriver(c, id, data)
  \/ \E c \in 1..MaxConns, id \in ReqIds, data \in UserDataPayloads : ReceiveSetDriverUserData(c, id, data)
  \/ \E fid \in 1..MaxFrames : TimerFires(fid)
  \/ \E fid \in 1..MaxFrames, action \in SetupActions, errorType \in ErrorTypes :
       SetupReturn(fid, action, IF action = "SetupError" THEN errorType ELSE "OTHER")
  \/ \E fid \in 1..MaxFrames : SetupThrow(fid)
  \/ \E fid \in 1..MaxFrames, statusCode \in CommandResults : DriverAcknowledge(fid, statusCode)

\* broadcasts while sockets fail
NextBroadcast ==
  \/ Sessions
  \/ \E c \in 1..MaxConns, outcome \in SendFailures : TransportFails(c, outcome)
  \/ \E s \in DeviceStates : SetDeviceState(s)

\* attribute changes of configured entities
NextAttributes ==
  \/ Sessions
  \/ \E e \in Entities, url \in MediaImageUrls \cup {"unchanged"}, form \in AttributeForms :
       EntityAttributesUpdated(e, url, form)

Next == NextDispatch \/ NextRouter \/ NextSetup

Spec == Init /\ [][Next]_vars

SpecDispatch == Init /\ [][NextDispatch]_vars

SpecRouter == Init /\ [][NextRouter]_vars

SpecSetup == Init /\ [][NextSetup]_vars

SpecBroadcast == Init /\ [][NextBroadcast]_vars

\* the state after an earlier session subscribed to e1 and left: e1 is
\* configured, nobody is connected
InitConfigured ==
  /\ setupHandler \in BOOLEAN
  /\ state = "DISCONNECTED"
  /\ conns = <<>>
  /\ open = {}
  /\ clients = <<>>
  /\ available = {"e1", "e2"}
  /\ configured = SubscribeEvents({}, <<"e1">>)
  /\ frames = <<>>
  /\ out = <<>>
  /\ bcasts = <<>>
  /\ attributes = [e \in Entities |-> [media_image_url |-> HttpUrl, original |-> HttpUrl]]

SpecAttributes == InitConfigured /\ [][NextAttributes]_vars

\* the router with an entity configured from the start
SpecConfigured == InitConfigured /\ [][NextRouter]_vars

TypeOK ==
  /\ setupHandler \in BOOLEAN
  /\ state \in DeviceStates
  /\ open \subseteq 1..Len(conns)
  /\ Registered = open
  /\ configured \subseteq Entities
  /\ \A e \in Entities : attributes[e].media_image_url \in MediaImageUrls \cup {Redacted}

\* ---- what the claims speak about ----
Fids == 1..Len(frames)

Finished(f) == f.pc \in {"done", "threw"}

LegacyNotifications == {"entity_command", "setup_driver", "setup_driver_user_data",
                        "setup_driver_user_confirmation"}

\* a legacy notification the driver has not answered yet
AwaitsDriver(f) == f.emitted \in LegacyNotifications /\ ~f.acked

\* the sends frame fid caused, in order
FrameOut(fid) == SelectOut(out, 1, fid)

FrameEvents(fid) == SelectSeq(FrameOut(fid), LAMBDA m : m.kind = "event")

FrameResponses(fid) == SelectSeq(FrameOut(fid), LAMBDA m : m.kind = "resp")

DataOf(ms) == [i \in 1..Len(ms) |-> ms[i].data]

\* the responses to frame fid that reached the session that sent it
ResponsesToSender(fid) ==
  SelectSeq(FrameResponses(fid), LAMBDA m : m.to = frames[fid].conn)

\* C1: every request of a session that stays connected is answered by exactly one
\* response, which carries the request's correlation id. Stated for the requests
\* whose handler has ended, and not for a legacy notification the driver may still
\* answer.
C1_EveryRequestOneResponse ==
  \A fid \in Fids :
    (/\ frames[fid].kind = "req"
     /\ Finished(frames[fid])
     /\ ~AwaitsDriver(frames[fid])
     /\ frames[fid].conn \in open)
    => /\ Len(ResponsesToSender(fid)) = 1
       /\ ResponsesToSender(fid)[1].req_id = frames[fid].id

\* C2: a response or setup event caused by a request reaches no session but the
\* one that sent the request.
\* Stated for what the engine sends while it handles the request: a response to
\* a request that went to the driver as a legacy notification is the driver's.
C2_OnlyToOriginatingSession ==
  \A i \in 1..Len(out) :
    (/\ out[i].fid # 0
     /\ ~(out[i].kind = "resp" /\ frames[out[i].fid].emitted \in LegacyNotifications))
    => out[i].to \in {NoConn, frames[out[i].fid].conn}

\* C4: SETUP_DRIVER without msg_data or without setup_data invokes neither the
\* setup handler nor the legacy notification, the setup step returns false, and
\* one STOP/ERROR event with reason OTHER goes to the requesting session.
C4_MissingSetupData ==
  \A fid \in Fids :
    (frames[fid].msg = "setup_driver" /\ frames[fid].data.shape \in {"none", "empty"})
    => /\ frames[fid].calls = 0
       /\ frames[fid].emitted = "none"
       /\ frames[fid].ret = "false"
       /\ frames[fid].pc = "done"
       /\ DataOf(FrameEvents(fid)) = <<"STOP/ERROR/OTHER">>
       /\ FrameEvents(fid)[1].to = frames[fid].conn

C4_Witness ==
  \E fid \in Fids :
    /\ frames[fid].msg = "setup_driver"
    /\ frames[fid].data.shape = "empty"
    /\ setupHandler
    /\ Len(FrameEvents(fid)) = 1

\* C6: ENTITY_COMMAND for an id that is available but not configured is answered
\* with NOT_FOUND; no command handler and no legacy notification is invoked.
C6_NotConfiguredNotFound ==
  \A fid \in Fids :
    (/\ frames[fid].msg = "entity_command"
     /\ frames[fid].data.shape = "cmd"
     /\ frames[fid].data.entity \in available
     /\ frames[fid].data.entity \notin frames[fid].pre)
    => /\ frames[fid].calls = 0
       /\ frames[fid].emitted = "none"
       /\ frames[fid].pc = "done"
       /\ Len(FrameOut(fid)) = 1
       /\ FrameOut(fid)[1].kind = "resp"
       /\ FrameOut(fid)[1].code = NOT_FOUND
       /\ FrameOut(fid)[1].req_id = frames[fid].id
       /\ FrameOut(fid)[1].to = frames[fid].conn

C6_Witness ==
  \E fid \in Fids :
    /\ frames[fid].msg = "entity_command"
    /\ frames[fid].data.shape = "cmd"
    /\ frames[fid].data.entity \in available
    /\ frames[fid].data.entity \notin frames[fid].pre
    /\ frames[fid].pre # {}
    /\ Len(FrameOut(fid)) = 1

\* a SETUP_DRIVER request a answered with RequestUserInput, and the
\* SET_DRIVER_USER_DATA request b of the same session that followed it and was
\* answered with SetupComplete
IsSetupFlow(a, b) ==
  /\ frames[a].msg = "setup_driver" /\ frames[a].action = "RequestUserInput"
  /\ frames[b].msg = "set_driver_user_data" /\ frames[b].action = "SetupComplete"
  /\ frames[a].conn = frames[b].conn
  /\ \A i \in 1..Len(out) : out[i].fid = a => i <= frames[b].at

FlowEvents(a, b) == SelectSeq(out, LAMBDA m : m.fid \in {a, b} /\ m.kind = "event")

FlowAddressing(a, b) ==
  \A i \in 1..Len(FlowEvents(a, b)) :
    /\ FlowEvents(a, b)[i].wsId = frames[a].wsId
    /\ frames[a].conn \in open => FlowEvents(a, b)[i].to = frames[a].conn

\* C3 as stated: the events of the flow are a progress event, WAIT_USER_ACTION
\* with the input descriptors and STOP/OK, in this order, each addressed to the
\* originating session.
C3_FlowEventsAsStated ==
  \A a \in Fids, b \in Fids :
    IsSetupFlow(a, b)
    => /\ DataOf(FlowEvents(a, b)) = <<"SETUP/SETUP", "SETUP/WAIT_USER_ACTION/input", "STOP/OK">>
       /\ FlowAddressing(a, b)

\* C3 amended: the continuation emits a second progress event before it invokes
\* the driver logic, so the events of the flow are progress, WAIT_USER_ACTION
\* (input), progress, STOP/OK, in this order; each is addressed to the identifier
\* of the originating session and reaches that session while it is connected.
C3_FlowEvents ==
  \A a \in Fids, b \in Fids :
    IsSetupFlow(a, b)
    => /\ DataOf(FlowEvents(a, b)) =
            <<"SETUP/SETUP", "SETUP/WAIT_USER_ACTION/input", "SETUP/SETUP", "STOP/OK">>
       /\ FlowAddressing(a, b)

C3_Witness ==
  \E a \in Fids, b \in Fids :
    /\ IsSetupFlow(a, b)
    /\ frames[a].conn \in open
    /\ Len(FlowEvents(a, b)) = 4
    /\ FlowEvents(a, b)[4].to = frames[a].conn

\* C5: when the setup handler raises, the setup step returns false, the handler
\* is not invoked again for the request, nothing the request causes reaches
\* another session, and the originating session, while connected, gets exactly
\* one STOP/ERROR event with reason OTHER.
C5_HandlerThrowAborts ==
  \A fid \in Fids :
    frames[fid].action = "threw"
    => /\ frames[fid].ret = "false"
       /\ frames[fid].calls = 1
       /\ \A i \in 1..Len(FrameOut(fid)) : FrameOut(fid)[i].to \in {NoConn, frames[fid].conn}
       /\ frames[fid].conn \in open
          => Len(SelectSeq(FrameEvents(fid),
                           LAMBDA m : m.data = "STOP/ERROR/OTHER" /\ m.to = frames[fid].conn)) = 1

\* C7: an ENTITY_COMMAND on a configured entity gets exactly one acknowledgement
\* with the request's correlation id, on the command handler path and on the
\* legacy path. Stated for the requests whose handling has ended, and not for a
\* legacy notification the driver may still answer.
C7_CommandAcknowledgedOnce ==
  \A fid \in Fids :
    (/\ frames[fid].msg = "entity_command"
     /\ frames[fid].data.shape = "cmd"
     /\ frames[fid].data.entity \in frames[fid].pre
     /\ Finished(frames[fid])
     /\ ~AwaitsDriver(frames[fid])
     /\ frames[fid].conn \in open)
    => /\ Len(ResponsesToSender(fid)) = 1
       /\ ResponsesToSender(fid)[1].msg = "result"
       /\ ResponsesToSender(fid)[1].req_id = frames[fid].id

\* C8: SUBSCRIBE_EVENTS with ids that are not available leaves configured as it
\* was for those ids, adds every requested id that is available, and is answered
\* with OK.
C8_SubscribePartial ==
  \A fid \in Fids :
    (frames[fid].msg = "subscribe_events" /\ frames[fid].data.shape = "ids")
    => LET ids == Range(frames[fid].data.ids)
       IN /\ \A e \in ids \ available : e \in frames[fid].post <=> e \in frames[fid].pre
          /\ \A e \in ids \cap available : e \in frames[fid].post
          /\ \A e \in Entities \ ids : e \in frames[fid].post <=> e \in frames[fid].pre
          /\ DataOf(FrameOut(fid)) = <<"{}">>
          /\ FrameOut(fid)[1].kind = "resp"
          /\ FrameOut(fid)[1].code = OK
          /\ FrameOut(fid)[1].req_id = frames[fid].id
          /\ FrameOut(fid)[1].to = frames[fid].conn

C8_Witness ==
  \E fid \in Fids :
    /\ frames[fid].msg = "subscribe_events"
    /\ frames[fid].data.ids = <<"e3", "e2">>
    /\ frames[fid].pre = {"e1"}
    /\ frames[fid].post = {"e1", "e2"}
    /\ FrameOut(fid)[1].code = OK

\* C9: unsubscribing returns true only if every id of the list was configured;
\* if any id is absent it returns false, and every id of the list that was
\* configured is removed all the same.
C9_UnsubscribeResult ==
  \A fid \in Fids :
    (frames[fid].msg = "unsubscribe_events" /\ frames[fid].data.shape = "ids")
    => LET ids == Range(frames[fid].data.ids)
       IN /\ frames[fid].ret = "true" => ids \subseteq frames[fid].pre
          /\ ~(ids \subseteq frames[fid].pre) => frames[fid].ret = "false"
          /\ frames[fid].post = frames[fid].pre \ ids

C9_Witness ==
  \E fid \in Fids :
    /\ frames[fid].msg = "unsubscribe_events"
    /\ frames[fid].data.ids = <<"e3", "e1">>
    /\ frames[fid].pre = {"e1", "e2"}
    /\ frames[fid].ret = "false"
    /\ frames[fid].post = {"e2"}

\* the sends of broadcast b
BroadcastOut(b) == SelectSeq(out, LAMBDA m : m.bc = b)

Receives(msg) ==
  /\ Len(frames') = Len(frames) + 1
  /\ frames'[Len(frames')].msg = msg

\* the step receives a frame of the given kind
ReceivesKind(kind) ==
  /\ Len(frames') = Len(frames) + 1
  /\ frames'[Len(frames')].kind = kind

\* C12: a request whose name is not in the dispatch table gets exactly one
\* response, with the request's correlation id, status 500 and an empty payload,
\* delivered to the session that sent it; receiving it changes neither the
\* registry nor the entity sets nor the device state.
C12_UnknownRequestServerError ==
  /\ [](\A fid \in Fids :
          frames[fid].msg = "unknown_request"
          => /\ Len(FrameOut(fid)) = 1
             /\ FrameOut(fid)[1].kind = "resp"
             /\ FrameOut(fid)[1].msg = "result"
             /\ FrameOut(fid)[1].req_id = frames[fid].id
             /\ FrameOut(fid)[1].code = SERVER_ERROR
             /\ FrameOut(fid)[1].data = "{}"
             /\ FrameOut(fid)[1].to = frames[fid].conn
             /\ frames[fid].pc = "done"
             /\ frames[fid].emitted = "none")
  /\ [][Receives("unknown_request")
        => /\ UNCHANGED <<setupHandler, state, conns, open, clients, available, configured, bcasts, attributes>>
           /\ Len(out') = Len(out) + 1]_vars

\* an unknown request answered after the device state changed and another frame
\* was handled
C12_Witness ==
  \E fid \in Fids :
    /\ frames[fid].msg = "unknown_request"
    /\ fid > 1
    /\ state = "CONNECTED"
    /\ FrameOut(fid)[1].code = SERVER_ERROR
    /\ FrameOut(fid)[1].to = frames[fid].conn

\* C13: a frame that is not valid JSON is dropped: receiving it sends nothing,
\* notifies nobody and changes no state; its session stays registered while it
\* is connected, and the next frame of that session is processed.
C13_MalformedDropped ==
  /\ [](\A fid \in Fids :
          frames[fid].kind = "malformed"
          => /\ FrameOut(fid) = <<>>
             /\ frames[fid].emitted = "none"
             /\ frames[fid].calls = 0
             /\ frames[fid].pc = "done"
             /\ frames[fid].conn \in open
                => /\ frames[fid].conn \in Registered
                   /\ Len(frames) < MaxFrames
                      => ENABLED (\E id \in ReqIds, msg \in GetMessages :
                                    ReceiveGet(frames[fid].conn, id, msg)))
  /\ [][ReceivesKind("malformed")
        => UNCHANGED <<setupHandler, state, conns, open, clients, available, configured, out, bcasts, attributes>>]_vars

\* a request of the same session answered after its malformed frame
C13_Witness ==
  \E a \in Fids, b \in Fids :
    /\ a < b
    /\ frames[a].kind = "malformed"
    /\ frames[b].conn = frames[a].conn
    /\ frames[b].msg = "get_device_state"
    /\ Len(ResponsesToSender(b)) = 1

\* the positions in the send log of the authentication responses delivered to
\* connection c
AuthenticationsTo(c) ==
  {i \in 1..Len(out) : out[i].kind = "resp" /\ out[i].msg = "authentication" /\ out[i].to = c}

\* C16: a connecting session is registered with authenticated = true, and exactly
\* one authentication response, with status 200, is sent for it: to the new
\* session and no other, and before any response to a request of that session.
C16_AuthenticationOnConnect ==
  /\ \A i \in 1..Len(clients) :
       /\ clients[i].authenticated
       /\ clients[i].id = conns[clients[i].conn]
  /\ open \subseteq Registered
  /\ Cardinality({i \in 1..Len(out) : out[i].msg = "authentication"}) = Len(conns)
  /\ \A c \in 1..Len(conns) :
       /\ Cardinality(AuthenticationsTo(c)) = 1
       /\ \A i \in AuthenticationsTo(c) :
            /\ out[i].code = OK
            /\ out[i].req_id = 0
            /\ out[i].wsId = conns[c]
            /\ \A j \in 1..Len(out) :
                 (out[j].kind = "resp" /\ out[j].fid # 0 /\ frames[out[j].fid].conn = c) => i < j

\* a session that connected from the address and port of an earlier, closed
\* session, and had a request answered
C16_Witness ==
  /\ Len(conns) = 2
  /\ conns[1] = conns[2]
  /\ 2 \in open
  /\ \E fid \in Fids : frames[fid].conn = 2 /\ Len(ResponsesToSender(fid)) = 1

\* C20: SET_DRIVER_USER_DATA without msg_data, or with neither input_values nor
\* confirm, invokes no driver setup logic and no legacy notification and emits
\* no progress event; the continuation returns false at once, and one
\* STOP/ERROR event with reason OTHER goes to the requesting session.
C20_MissingUserData ==
  \A fid \in Fids :
    (frames[fid].msg = "set_driver_user_data" /\ frames[fid].data.shape \in {"none", "empty"})
    => /\ frames[fid].calls = 0
       /\ frames[fid].emitted = "none"
       /\ frames[fid].ret = "false"
       /\ frames[fid].pc = "done"
       /\ \A i \in 1..Len(FrameEvents(fid)) : FrameEvents(fid)[i].data # "SETUP/SETUP"
       /\ DataOf(FrameEvents(fid)) = <<"STOP/ERROR/OTHER">>
       /\ FrameEvents(fid)[1].to = frames[fid].conn
       /\ FrameEvents(fid)[1].msg = "driver_setup_change"

\* the request follows a SETUP_DRIVER request of the same session that the
\* setup handler answered with a request for user input
C20_Witness ==
  \E a \in Fids, b \in Fids :
    /\ a < b
    /\ frames[a].msg = "setup_driver"
    /\ frames[a].action = "RequestUserInput"
    /\ frames[b].conn = frames[a].conn
    /\ frames[b].msg = "set_driver_user_data"
    /\ frames[b].data.shape = "empty"
    /\ Len(FrameEvents(b)) = 1

\* a request that lacks the fields its handler requires
FailsValidation(f) ==
  \/ f.msg = "entity_command" /\ f.data.shape # "cmd"
  \/ f.msg \in {"subscribe_events", "unsubscribe_events"} /\ f.data.shape # "ids"
  \/ f.msg = "setup_driver" /\ f.data.shape # "setup_data"
  \/ f.msg = "set_driver_user_data" /\ f.data.shape \notin {"input_values", "confirm"}

\* C17: a request that lacks required fields is answered with one BAD_REQUEST
\* response to its session, and its handler ends without an exception.
C17_ValidationBadRequest ==
  \A fid \in Fids :
    (frames[fid].kind = "req" /\ FailsValidation(frames[fid]))
    => /\ frames[fid].pc = "done"
       /\ Len(FrameResponses(fid)) = 1
       /\ FrameResponses(fid)[1].code = BAD_REQUEST
       /\ FrameResponses(fid)[1].req_id = frames[fid].id
       /\ FrameResponses(fid)[1].to = frames[fid].conn

\* C14: a frame is handled to its end before the next frame is received: a
\* handler that has not ended belongs to the frame received last.
C14_OneHandlerAtATime ==
  \A fid \in Fids : ~Finished(frames[fid]) => fid = Len(frames)

\* the positions in the send log of the responses the engine sent for frame fid
ResponsePositions(fid) == {i \in 1..Len(out) : out[i].kind = "resp" /\ out[i].fid = fid}

\* C15: the responses to two requests of one session are sent in the order in
\* which the requests were received. Stated for the responses the engine sends
\* itself: the answer to a legacy notification is the driver's.
C15_ResponsesInRequestOrder ==
  \A a \in Fids, b \in Fids :
    (/\ a < b
     /\ frames[a].conn = frames[b].conn
     /\ frames[a].emitted \notin LegacyNotifications
     /\ frames[b].emitted \notin LegacyNotifications)
    => \A i \in ResponsePositions(a), j \in ResponsePositions(b) : i < j

\* the positions the step adds to the send log
NewPositions == (Len(out) + 1)..Len(out')

\* C19: a response or unicast event for an identifier that is not registered is
\* delivered to no session; the step that attempts it raises no error and leaves
\* the registry, the entity sets and the device state as they were; the send log
\* only grows, and when the identifier is registered again by a new connection
\* nothing but that connection's authentication response is sent.
C19_SendToUnregistered ==
  [][/\ \A i \in 1..Len(out) : i <= Len(out') /\ out'[i] = out[i]
     /\ \A i \in NewPositions :
          (/\ out'[i].bc = 0
           /\ \A k \in 1..Len(clients') : clients'[k].id # out'[i].wsId)
          => /\ out'[i].to = NoConn
             /\ UNCHANGED <<setupHandler, state, conns, open, clients, available, configured, bcasts, attributes>>
             /\ Len(frames') = Len(frames)
             /\ \A fid \in Fids : frames'[fid].pc = "threw" => frames[fid].pc = "threw"
     /\ Len(conns') > Len(conns)
        => /\ Len(out') = Len(out) + 1
           /\ out'[Len(out')].msg = "authentication"
           /\ out'[Len(out')].to = Len(conns')]_vars

\* an event and a response were not delivered because the session had gone, and
\* a new session has connected from the same address and port since
C19_Witness ==
  \E i \in 1..Len(out), j \in 1..Len(out) :
    /\ out[i].to = NoConn /\ out[i].kind = "event"
    /\ out[j].to = NoConn /\ out[j].kind = "resp"
    /\ Len(conns) = 2
    /\ conns[2] = out[i].wsId
    /\ 2 \in open
    /\ out[Len(out)].msg = "authentication"
    /\ out[Len(out)].to = 2

\* C18: a broadcast reaches every registered session whose own send does not
\* fail, wherever a session whose send fails stands in the registry.
C18_BroadcastIsolatesFailure ==
  [][Len(bcasts') > Len(bcasts)
     => \A i \in 1..Len(clients) :
          clients[i].send = "ok"
          => \E k \in NewPositions : out'[k].bc = Len(bcasts') /\ out'[k].to = clients[i].conn]_vars

\* C11: the redaction of the log never shows on the wire: every entity_change
\* envelope sent carries the media_image_url the driver set for the entity, also
\* when the attribute data it is built from was logged before.
C11_RedactionOnlyInLog ==
  [][\A i \in NewPositions :
       out'[i].msg = "entity_change"
       => /\ out'[i].data \in {attributes'[e].original : e \in configured}
          /\ out'[i].data # Redacted]_vars

\* C21: the notification of a SUBSCRIBE_EVENTS request carries exactly the
\* requested ids that were available and went into configured, in the order of
\* the request, and none of the ids that were skipped.
C21_NotificationCarriesProcessed ==
  \A fid \in Fids :
    (frames[fid].msg = "subscribe_events" /\ frames[fid].data.shape = "ids")
    => /\ frames[fid].emitted = "subscribe_entities"
       /\ frames[fid].notified = SelectSeq(frames[fid].data.ids, LAMBDA e : e \in available)
       /\ Range(frames[fid].notified) \subseteq frames[fid].post

\* C22: subscribe, unsubscribe and command requests leave the available ids as
\* they are; an id enters configured only by a subscription that found it in
\* available, so every configured id is available; an unsubscription removes
\* from configured alone, and a command changes neither set.
C22_ConfiguredFromAvailable ==
  /\ [](/\ configured \subseteq available
        /\ \A fid \in Fids :
             /\ frames[fid].post \ frames[fid].pre \subseteq available
             /\ frames[fid].post # frames[fid].pre
                => frames[fid].msg \in {"subscribe_events", "unsubscribe_events"}
             /\ frames[fid].msg = "unsubscribe_events" => frames[fid].post \subseteq frames[fid].pre)
  /\ [][/\ available' = available
         /\ configured' # configured
            => \/ Receives("subscribe_events") /\ configured \subseteq configured'
               \/ Receives("unsubscribe_events") /\ configured' \subseteq configured]_vars

\* an id was subscribed by one session and unsubscribed by another, and is
\* still available
C22_Witness ==
  \E a \in Fids, b \in Fids :
    /\ a < b
    /\ frames[a].conn # frames[b].conn
    /\ frames[a].msg = "subscribe_events"
    /\ frames[a].post = {"e1", "e2"}
    /\ frames[b].msg = "unsubscribe_events"
    /\ frames[b].post = {"e2"}
    /\ configured = {"e2"}
    /\ available = {"e1", "e2"}

\* the setup events of frame fid that are not progress events
OutcomeEvents(fid) == SelectSeq(FrameEvents(fid), LAMBDA m : m.data # "SETUP/SETUP")

SetupOutcomes == {"SETUP/WAIT_USER_ACTION/input", "SETUP/WAIT_USER_ACTION/confirmation",
                  "STOP/OK", "STOP/ERROR/OTHER", "STOP/ERROR/TIMEOUT"}

\* C23: with a setup handler registered and the session connected, a
\* SETUP_DRIVER or SET_DRIVER_USER_DATA request whose handling has ended has
\* exactly one outcome event (WAIT_USER_ACTION, STOP/OK or STOP/ERROR), delivered
\* to its session; while it is being handled it has none, so there are never two.
C23_OneSetupOutcome ==
  \A fid \in Fids :
    (/\ setupHandler
     /\ frames[fid].msg \in {"setup_driver", "set_driver_user_data"}
     /\ frames[fid].conn \in open)
    => /\ Len(OutcomeEvents(fid)) = (IF Finished(frames[fid]) THEN 1 ELSE 0)
       /\ frames[fid].pc # "threw"
       /\ \A i \in 1..Len(OutcomeEvents(fid)) :
            /\ OutcomeEvents(fid)[i].data \in SetupOutcomes
            /\ OutcomeEvents(fid)[i].msg = "driver_setup_change"
            /\ OutcomeEvents(fid)[i].to = frames[fid].conn

\* the handler returned a value that is no SetupAction for the SETUP_DRIVER
\* request of a session and raised for its SET_DRIVER_USER_DATA request
C23_Witness ==
  \E a \in Fids, b \in Fids :
    /\ setupHandler
    /\ frames[a].conn = frames[b].conn
    /\ frames[a].conn \in open
    /\ frames[a].msg = "setup_driver" /\ frames[a].action = "NoAction"
    /\ frames[b].msg = "set_driver_user_data" /\ frames[b].action = "threw"
    /\ Len(OutcomeEvents(a)) = 1
    /\ Len(OutcomeEvents(b)) = 1

\* C24: what a suspended setup request sends after its session has disconnected
\* is delivered to no session, a session that connected since from the same
\* address and port included.
C24_AbandonedFlowUndelivered ==
  [][\A i \in NewPositions :
       (/\ out'[i].fid \in Fids
        /\ frames[out'[i].fid].msg \in {"setup_driver", "set_driver_user_data"}
        /\ frames[out'[i].fid].pc \in {"delay", "awaitSetup"}
        /\ frames[out'[i].fid].conn \notin open)
       => out'[i].to = NoConn]_vars

====
